---- MODULE Spec2Model ----
(***************************************************************************)
(* Model of MongoDriver (src/src/mongo_connection.py): a client wrapper    *)
(* around a document store.  The state is the driver object's two fields   *)
(* (client, db), the MongoClient objects it has constructed, the database  *)
(* held by the server, and a log of the last call and its outcome.         *)
(***************************************************************************)
EXTENDS Integers, Sequences, FiniteSets, TLC

\* ---------------------------------------------------------------- bounds
MaxConnects == 2        \* MongoClient objects of one driver that hold a transport
MaxDocs     == 3        \* documents a collection holds
MaxLines    == 3        \* lines of an input file
MaxLim      == 2        \* largest limit passed to search_query

Names   == {"t"}        \* collection names
Values  == {"A", "B"}   \* values of the field "name"
NoName  == "none"       \* the field is absent from the document

\* ------------------------------------------------------- the input file
\* A file is a sequence of tokens.  "A" stands for the member "name":"A",
\* "1" for a number, "NL" for a line break.
ObjectLine(v) == <<"{", v, "}">>
TruncLine     == <<"{", "A">>
TailLine      == <<"B", "}">>
BlankLine     == <<>>
LineKinds     == {ObjectLine("A"), TruncLine, TailLine, BlankLine}

RECURSIVE JoinWith(_, _)
JoinWith(lines, sep) ==
    IF lines = <<>> THEN <<>>
    ELSE IF Len(lines) = 1 THEN lines[1]
    ELSE lines[1] \o <<sep>> \o JoinWith(Tail(lines), sep)

Files == UNION {[1..n -> LineKinds] : n \in 0..MaxLines}
FileText(lines) == JoinWith(lines, "NL")

\* What open(json_file) is given: a path with no file behind it, or a file.
Sources == {[exists |-> TRUE, lines |-> f] : f \in Files} \cup
           {[exists |-> FALSE, lines |-> <<>>]}

\* data.strip(): line breaks at both ends are removed.
RECURSIVE LStrip(_)
LStrip(s) == IF s # <<>> /\ Head(s) = "NL" THEN LStrip(Tail(s)) ELSE s

RECURSIVE RStrip(_)
RStrip(s) == IF s # <<>> /\ s[Len(s)] = "NL"
             THEN RStrip(SubSeq(s, 1, Len(s) - 1)) ELSE s

Strip(s) == RStrip(LStrip(s))

\* str.split('\n'): always at least one piece, empty pieces are kept.
RECURSIVE SplitFrom(_, _, _)
SplitFrom(s, i, cur) ==
    IF i > Len(s) THEN <<cur>>
    ELSE IF s[i] = "NL" THEN <<cur>> \o SplitFrom(s, i + 1, <<>>)
    ELSE SplitFrom(s, i + 1, Append(cur, s[i]))

Split(s) == SplitFrom(s, 1, <<>>)

\* '[' + ','.join(objects) + ']'
WrapArray(objects) == <<"[">> \o JoinWith(objects, ",") \o <<"]">>

\* json.loads of an array text.  st is the parser's position in the
\* grammar, acc the values read so far, cur the "name" of the object being
\* read (a repeated key keeps its last value).  A number parses to "1".
RECURSIVE Scan(_, _, _, _, _)
Scan(s, i, st, acc, cur) ==
    IF i > Len(s) THEN [ok |-> st = "end", vals |-> acc]
    ELSE LET c == s[i] IN
      CASE st = "start" /\ c = "["    -> Scan(s, i + 1, "first", acc, cur)
        [] st = "first" /\ c = "]"    -> Scan(s, i + 1, "end", acc, cur)
        [] st \in {"first", "value"} /\ c = "1"
                                      -> Scan(s, i + 1, "after", Append(acc, "1"), cur)
        [] st \in {"first", "value"} /\ c = "{"
                                      -> Scan(s, i + 1, "ofirst", acc, NoName)
        [] st = "ofirst" /\ c = "}"   -> Scan(s, i + 1, "after", Append(acc, cur), cur)
        [] st \in {"ofirst", "member"} /\ c \in Values
                                      -> Scan(s, i + 1, "oafter", acc, c)
        [] st = "oafter" /\ c = ","   -> Scan(s, i + 1, "member", acc, cur)
        [] st = "oafter" /\ c = "}"   -> Scan(s, i + 1, "after", Append(acc, cur), cur)
        [] st = "after" /\ c = ","    -> Scan(s, i + 1, "value", acc, cur)
        [] st = "after" /\ c = "]"    -> Scan(s, i + 1, "end", acc, cur)
        [] OTHER                      -> [ok |-> FALSE, vals |-> <<>>]

JsonLoads(s) == Scan(s, 1, "start", <<>>, NoName)

\* What the caller knows of a file.  A line is malformed when it is not a
\* sequence of JSON texts; the lines of the model that are not malformed are
\* blank or hold one JSON object.
LineMalformed(line) == ~JsonLoads(WrapArray(<<line>>)).ok

NonEmpty(lines) == Cardinality({i \in 1..Len(lines) : lines[i] # <<>>})

HasMalformed(lines) == \E i \in 1..Len(lines) : LineMalformed(lines[i])

HasGaps(lines) ==
    \E i, j, k \in 1..Len(lines) :
        i < j /\ j < k /\ lines[i] # <<>> /\ lines[j] = <<>> /\ lines[k] # <<>>

\* The file as insert_data reads it: strip, split, wrap, load.
LoadFile(lines) == JsonLoads(WrapArray(Split(Strip(FileText(lines)))))

\* LoadFile and the description of a file, tabulated over the model's files
\* (@@ <<>> changes no value and has each table evaluated once).
Loaded == [f \in Files |-> LoadFile(f)] @@ <<>>

Described == [f \in Files |-> [lines |-> NonEmpty(f),
                               malformed |-> HasMalformed(f),
                               gaps |-> HasGaps(f)]] @@ <<>>

\* ----------------------------------------------------------------- state
VARIABLES
    client,     \* self.client: 0 for None, else the index of a MongoClient
    db,         \* self.db: 0 for None, else the MongoClient the handle uses
    clients,    \* the MongoClient objects constructed so far: open or closed
    reachable,  \* a server answers at host:port
    store,      \* the server's database: its collections, in creation order
    last        \* the last call, its arguments and its outcome

vars == <<client, db, clients, reachable, store, last>>

\* ------------------------------------------------------- the database
Exists(st, c) == \E i \in 1..Len(st) : st[i].name = c

IndexOf(st, c) == CHOOSE i \in 1..Len(st) : st[i].name = c

DocsOf(st, c) == IF Exists(st, c) THEN st[IndexOf(st, c)].docs ELSE <<>>

\* Database.create_collection on the server; the caller has checked the name.
CreateIn(st, c) == Append(st, [name |-> c, docs |-> <<>>])

\* delete_one in place of delete_many: only the first document goes.
DeleteOne(st, c) ==
    [st      |-> IF Exists(st, c) THEN [st EXCEPT ![IndexOf(st, c)].docs =
                                         IF @ = <<>> THEN @ ELSE Tail(@)]
                 ELSE st,
     deleted |-> IF DocsOf(st, c) = <<>> THEN 0 ELSE 1]

\* Collection.delete_many({}): every document goes and the result counts
\* them; a collection that does not exist stays absent.
DeleteMany(st, c) ==
    [st      |-> IF Exists(st, c) THEN [st EXCEPT ![IndexOf(st, c)].docs = <<>>]
                 ELSE st,
     deleted |-> Len(DocsOf(st, c))]

\* collection.drop written without its call: nothing is dropped.
DropNothing(st, c) == st

\* Collection.drop()
RECURSIVE DropFrom(_, _)
DropFrom(st, c) ==
    IF st = <<>> THEN <<>>
    ELSE IF Head(st).name = c THEN DropFrom(Tail(st), c)
    ELSE <<Head(st)>> \o DropFrom(Tail(st), c)

\* An insert that replaces what the collection holds.
InsertReplacing(st, c, docs) ==
    LET s1 == IF Exists(st, c) THEN st ELSE CreateIn(st, c)
    IN  [s1 EXCEPT ![IndexOf(s1, c)].docs = docs]

\* Collection.insert_many: an absent collection is created by the insert.
InsertInto(st, c, docs) ==
    LET s1 == IF Exists(st, c) THEN st ELSE CreateIn(st, c)
    IN  [s1 EXCEPT ![IndexOf(s1, c)].docs = @ \o docs]

\* A parsed JSON object as the document insert_many stores.
MakeDoc(v) == [name |-> v]

Documents(vals) == [i \in 1..Len(vals) |-> MakeDoc(vals[i])]

\* What the database holds when the driver is constructed: nothing, or a
\* collection an earlier run has loaded.
InitialStores == {<<>>, <<[name |-> "t", docs |-> <<MakeDoc("A")>>]>>}

\* ------------------------------------------------------------- queries
Filters == {"all"} \cup Values      \* {} and {"name": v}

Matches(d, qu) == qu = "all" \/ ("name" \in DOMAIN d /\ d.name = qu)

RECURSIVE Select(_, _)
Select(docs, qu) ==
    IF docs = <<>> THEN <<>>
    ELSE IF Matches(Head(docs), qu) THEN <<Head(docs)>> \o Select(Tail(docs), qu)
    ELSE Select(Tail(docs), qu)

\* Cursor.limit(n): a limit of 0 is no limit.
Limit(docs, lim) ==
    IF lim = 0 \/ Len(docs) <= lim THEN docs ELSE SubSeq(docs, 1, lim)

Projections == {"all", "noname"}    \* {"name": 1} and {"name": 0}

Project(d, proj) == IF proj = "noname" THEN [name |-> NoName] ELSE d

FindDocs(docs, qu, proj, lim) ==
    LET hit == Limit(Select(docs, qu), lim)
    IN  [i \in 1..Len(hit) |-> Project(hit[i], proj)]

\* len(list(db[name].find({})))
SizeOf(st, c) == Len(FindDocs(DocsOf(st, c), "all", "all", 0))

\* Aggregation pipelines: $match on name "A", $count as "n", an unknown stage.
Pipelines == {<<>>, <<"match">>, <<"count">>, <<"match", "count">>, <<"bogus">>}

ValidPipeline(p) == \A i \in 1..Len(p) : p[i] \in {"match", "count"}

RECURSIVE RunPipeline(_, _)
RunPipeline(docs, p) ==
    IF p = <<>> THEN docs
    ELSE IF Head(p) = "match" THEN RunPipeline(Select(docs, "A"), Tail(p))
    ELSE RunPipeline(IF docs = <<>> THEN <<>> ELSE <<[n |-> Len(docs)]>>, Tail(p))

\* ---------------------------------------------------------- the client
\* A MongoClient serves a call when it has not been closed (a closed one
\* cannot be used again) and a server answers.
Usable(cs, d) == cs[d] /\ reachable

UseError(cs, d) ==
    IF ~cs[d] THEN "InvalidOperation" ELSE "ServerSelectionTimeoutError"

\* The transports this driver holds open to the server.
Live(cs) == {i \in 1..Len(cs) : cs[i] /\ reachable}

\* ------------------------------------------------------------ the log
Entry(op, c) ==
    [op |-> op, coll |-> c, raised |-> FALSE, err |-> "",
     kind |-> "none", num |-> 0, docs |-> <<>>,
     out |-> <<>>,
     had |-> Len(DocsOf(store, c)), existed |-> Exists(store, c),
     clear |-> FALSE, lines |-> 0, malformed |-> FALSE, gaps |-> FALSE,
     qu |-> "all", lim |-> 0]

Raise(e, err) == [e EXCEPT !.raised = TRUE, !.err = err]

Init ==
    /\ client = 0
    /\ db = 0
    /\ clients = <<>>
    /\ reachable \in BOOLEAN
    /\ store \in InitialStores
    /\ last = Entry("init", "")

\* Every call ends by recording itself.
Record(e) == last' = e

\* A call that raises and changes nothing.
Fails(op, c, err) ==
    /\ Record(Raise(Entry(op, c), err))
    /\ UNCHANGED <<client, db, clients, reachable, store>>

\* A call that raises because the server cannot be used.
Unusable(op, c) ==
    /\ Record(Raise(Entry(op, c), UseError(clients, db)))
    /\ UNCHANGED <<client, db, clients, reachable, store>>

\* self.client is rebound: the object it named is no longer referenced.  One
\* that was closed holds nothing and is forgotten; one that was not closed
\* keeps its transport.
Rebound(cs) ==
    IF client # 0 /\ ~cs[client] THEN SubSeq(cs, 1, Len(cs) - 1) ELSE cs

\* ------------------------------------------------------------- actions
\* A connect that catches the failure and binds nothing.
connect_guarded ==
    IF ~reachable
    THEN /\ Record(Entry("connect", ""))
         /\ UNCHANGED <<client, db, clients, reachable, store>>
    ELSE /\ Len(Rebound(clients)) < MaxConnects
         /\ clients' = Append(Rebound(clients), TRUE)
         /\ client' = Len(Rebound(clients)) + 1
         /\ db' = Len(Rebound(clients)) + 1
         /\ Record(Entry("connect", ""))
         /\ UNCHANGED <<reachable, store>>

\* MongoClient(...) starts its monitor and returns at once, whether or not
\* a server answers at host:port.
connect ==
    /\ Len(Rebound(clients)) < MaxConnects
    /\ clients' = Append(Rebound(clients), TRUE)
    /\ client' = Len(Rebound(clients)) + 1
    /\ db' = Len(Rebound(clients)) + 1
    /\ Record(Entry("connect", ""))
    /\ UNCHANGED <<reachable, store>>

disconnect ==
    IF client = 0 THEN Fails("disconnect", "", "AttributeError")
    ELSE /\ clients' = [clients EXCEPT ![client] = FALSE]
         /\ Record(Entry("disconnect", ""))
         /\ UNCHANGED <<client, db, reachable, store>>

\* A flush that reaches the server without a database handle.
flush_unconnected(c) ==
    LET result == DeleteMany(store, c) IN
    IF db # 0 /\ ~Usable(clients, db) THEN Unusable("flush", c)
    ELSE /\ store' = result.st
         /\ Record([Entry("flush", c) EXCEPT !.out = <<result.deleted>>])
         /\ UNCHANGED <<client, db, clients, reachable>>

\* A flush that returns the count it prints.
flush_returning(c) ==
    LET result == DeleteMany(store, c) IN
    IF db = 0 THEN Fails("flush", c, "TypeError")
    ELSE IF ~Usable(clients, db) THEN Unusable("flush", c)
    ELSE /\ store' = result.st
         /\ Record([Entry("flush", c) EXCEPT !.out = <<result.deleted>>,
                        !.kind = "int", !.num = result.deleted])
         /\ UNCHANGED <<client, db, clients, reachable>>

flush_collection(c) ==
    LET result == DeleteMany(store, c) IN
    IF db = 0 THEN Fails("flush", c, "TypeError")
    ELSE IF ~Usable(clients, db) THEN Unusable("flush", c)
    ELSE /\ store' = result.st
         /\ Record([Entry("flush", c) EXCEPT !.out = <<result.deleted>>])
         /\ UNCHANGED <<client, db, clients, reachable>>

remove_collection(c) ==
    IF db = 0 THEN Fails("drop", c, "TypeError")
    ELSE IF ~Usable(clients, db) THEN Unusable("drop", c)
    ELSE /\ store' = DropFrom(store, c)
         /\ Record(Entry("drop", c))
         /\ UNCHANGED <<client, db, clients, reachable>>

create_collection(c) ==
    IF db = 0 THEN Fails("create", c, "AttributeError")
    ELSE IF ~Usable(clients, db) THEN Unusable("create", c)
    ELSE IF Exists(store, c) THEN Fails("create", c, "CollectionInvalid")
    ELSE /\ store' = CreateIn(store, c)
         /\ Record(Entry("create", c))
         /\ UNCHANGED <<client, db, clients, reachable>>

collection_size(c) ==
    IF db = 0 THEN Fails("size", c, "TypeError")
    ELSE IF ~Usable(clients, db) THEN Unusable("size", c)
    ELSE /\ Record([Entry("size", c) EXCEPT !.kind = "int",
                             !.num = SizeOf(store, c)])
         /\ UNCHANGED <<client, db, clients, reachable, store>>

\* The creation without its except branch: an existing name raises.
ResolveUnguarded(st, c) ==
    IF db = 0 THEN [err |-> "TypeError", st |-> st]
    ELSE IF ~Usable(clients, db) THEN [err |-> "", st |-> st]
    ELSE IF Exists(st, c) THEN [err |-> "CollectionInvalid", st |-> st]
    ELSE [err |-> "", st |-> CreateIn(st, c)]

\* try: create_collection(name)  except: db[name]
\* With a usable server the collection exists afterwards; any failure of the
\* creation is swallowed and the handle is taken without asking the server.
Resolve(st, c) ==
    IF db = 0 THEN [err |-> "TypeError", st |-> st]
    ELSE IF Usable(clients, db) /\ ~Exists(st, c)
    THEN [err |-> "", st |-> CreateIn(st, c)]
    ELSE [err |-> "", st |-> st]

insert_data(c, json_file, clear) ==
    LET file == json_file.lines
        e    == [Entry("ingest", c) EXCEPT
                    !.clear = clear, !.lines = Described[file].lines,
                    !.malformed = Described[file].malformed,
                    !.gaps = Described[file].gaps]
        rc   == Resolve(store, c)
        st1  == rc.st
        st2  == IF clear THEN DeleteMany(st1, c).st ELSE st1
        del  == IF clear THEN <<DeleteMany(st1, c).deleted>> ELSE <<>>
        data == Loaded[file]
    IN
    IF rc.err # "" THEN Fails(e.op, c, rc.err)
    ELSE IF clear /\ ~Usable(clients, db) THEN Unusable(e.op, c)
    ELSE IF ~json_file.exists \/ ~data.ok \/ data.vals = <<>>
            \/ (\E i \in 1..Len(data.vals) : data.vals[i] = "1")
    THEN /\ Record([Raise(e, IF ~json_file.exists THEN "FileNotFoundError"
                             ELSE IF ~data.ok THEN "JSONDecodeError"
                             ELSE "TypeError") EXCEPT !.out = del])
         /\ store' = st2
         /\ UNCHANGED <<client, db, clients, reachable>>
    ELSE IF ~Usable(clients, db) THEN Unusable(e.op, c)
    ELSE /\ Len(DocsOf(st2, c)) + Len(data.vals) <= MaxDocs
         /\ store' = InsertInto(st2, c, Documents(data.vals))
         /\ Record([e EXCEPT !.out = del \o <<Len(data.vals)>>])
         /\ UNCHANGED <<client, db, clients, reachable>>

\* show only prints the documents; what is returned does not depend on it.
search_query(c, qu, proj, lim, show) ==
    LET e   == [Entry("find", c) EXCEPT !.qu = qu, !.lim = lim]
        rc  == Resolve(store, c)
        st1 == rc.st
        res == FindDocs(DocsOf(st1, c), qu, proj, lim)
    IN
    IF rc.err # "" THEN Fails(e.op, c, rc.err)
    ELSE IF ~Usable(clients, db) THEN Unusable(e.op, c)
    ELSE /\ store' = st1
         /\ Record([e EXCEPT !.kind = "list", !.docs = res])
         /\ UNCHANGED <<client, db, clients, reachable>>

aggregate_query(c, query, show) ==
    LET e   == Entry("aggregate", c)
        rc  == Resolve(store, c)
        st1 == rc.st
        res == RunPipeline(DocsOf(st1, c), query)
    IN
    IF rc.err # "" THEN Fails(e.op, c, rc.err)
    ELSE IF ~Usable(clients, db) THEN Unusable(e.op, c)
    ELSE IF ~ValidPipeline(query)
    THEN /\ store' = st1
         /\ Record(Raise(e, "OperationFailure"))
         /\ UNCHANGED <<client, db, clients, reachable>>
    ELSE /\ store' = st1
         /\ Record([e EXCEPT !.kind = "list", !.docs = res])
         /\ UNCHANGED <<client, db, clients, reachable>>

Next ==
    \/ connect
    \/ disconnect
    \/ \E c \in Names : flush_collection(c)
    \/ \E c \in Names : remove_collection(c)
    \/ \E c \in Names : create_collection(c)
    \/ \E c \in Names : collection_size(c)
    \/ \E c \in Names, f \in Sources, cl \in BOOLEAN : insert_data(c, f, cl)
    \/ \E c \in Names, q \in Filters, p \in Projections, n \in 0..MaxLim,
          sh \in BOOLEAN : search_query(c, q, p, n, sh)
    \/ \E c \in Names, q \in Pipelines, sh \in BOOLEAN : aggregate_query(c, q, sh)

Spec == Init /\ [][Next]_vars

\* =============================================================== claims
CollectionOps == {"flush", "drop", "create", "size", "ingest", "find", "aggregate"}

Copies(st, c) == Cardinality({i \in 1..Len(st) : st[i].name = c})

Min(a, b) == IF a <= b THEN a ELSE b

\* C1 (as claimed): an ingest whose source holds a malformed line raises and
\* leaves the documents of the collection exactly as they were, whatever
\* clear is.
C1_MalformedLeavesUnchanged ==
    [][(last'.op = "ingest" /\ last'.malformed) =>
          (/\ last'.raised
           /\ DocsOf(store', last'.coll) = DocsOf(store, last'.coll))]_vars

\* C2 (as claimed): after an ingest of a source whose non-empty lines are all
\* JSON objects has returned, the size of the collection is the number of
\* non-empty lines.
C2_SizeIsLineCount ==
    (last.op = "ingest" /\ ~last.malformed /\ ~last.raised) =>
        SizeOf(store, last.coll) = last.lines

\* C2 (amended): after such an ingest has returned, the size of the collection
\* is the number of non-empty lines plus the number of documents it held
\* before (none when clear is set); and the ingest does not return when the
\* source has a blank line between two records or no record at all.
C2_SizeGrowsByLineCount ==
    (last.op = "ingest" /\ ~last.malformed) =>
        /\ ~last.raised =>
              SizeOf(store, last.coll) =
                  (IF last.clear THEN 0 ELSE last.had) + last.lines
        /\ (last.gaps \/ last.lines = 0) => last.raised

C2_Witness ==
    /\ last.op = "ingest" /\ ~last.raised /\ ~last.malformed /\ ~last.clear
    /\ last.lines = 2 /\ last.had = 1
    /\ SizeOf(store, last.coll) = 3

\* C3: on a driver that has connected, resolving a name twice in a row never
\* raises, the second resolution changes nothing and creates no second
\* collection of that name, whether or not the name existed; and after a find
\* or an aggregate has resolved a name, resolving it again changes nothing.
C3_ResolveTwice ==
    /\ \A c \in Names :
          db # 0 =>
             LET r1 == Resolve(store, c)
                 r2 == Resolve(r1.st, c)
             IN  /\ r1.err = "" /\ r2.err = ""
                 /\ r2.st = r1.st
                 /\ Copies(r2.st, c) <= 1
                 /\ DocsOf(r2.st, c) = DocsOf(store, c)
    /\ (last.op \in {"find", "aggregate"} /\ ~last.raised) =>
          /\ Resolve(store, last.coll) = [err |-> "", st |-> store]
          /\ Copies(store, last.coll) = 1

C3_Witness ==
    /\ last.op \in {"find", "aggregate"} /\ ~last.raised /\ ~last.existed
    /\ Exists(store, last.coll)

\* C4: while connect has not been called, a collection operation raises and
\* leaves the database as it was.
C4_UnconnectedFails ==
    [][(client = 0 /\ db = 0 /\ last'.op \in CollectionOps) =>
          (last'.raised /\ store' = store)]_vars

C4_Witness ==
    /\ client = 0 /\ db = 0 /\ store # <<>>
    /\ last.op = "flush" /\ last.raised

\* C5 (as claimed): a connect that no server answers returns and leaves the
\* driver with no client handle and no database handle.
C5_FailedConnectBindsNothing ==
    (last.op = "connect" /\ ~reachable) =>
        (~last.raised /\ client = 0 /\ db = 0)

\* C5 (amended): a connect that no server answers returns and binds both
\* handles to a client that has no transport; every collection operation
\* made through them raises.
C5_FailedConnectBindsDeadHandles ==
    /\ (last.op = "connect" /\ ~reachable) =>
          /\ ~last.raised
          /\ client # 0 /\ db = client /\ clients[client]
          /\ Live(clients) = {}
    /\ (~reachable /\ db # 0 /\ last.op \in CollectionOps) => last.raised

C5_Witness == last.op = "connect" /\ ~reachable /\ db # 0

\* C6 (as claimed): the driver never holds more than one open transport, and
\* none after a disconnect.
C6_AtMostOneTransport ==
    /\ Cardinality(Live(clients)) <= 1
    /\ (last.op = "disconnect" /\ ~last.raised) => Live(clients) = {}

\* C7: right after a flush of a collection, whatever it held, the size of
\* that collection can be asked and is 0.
C7_FlushThenSizeIsZero ==
    (last.op = "flush" /\ ~last.raised) =>
        /\ db # 0 /\ Usable(clients, db)
        /\ SizeOf(store, last.coll) = 0

C7_Witness == last.op = "flush" /\ ~last.raised /\ last.had >= 2

\* C8 (as claimed): flush returns the number of documents it removed.
C8_FlushReturnsCount ==
    (last.op = "flush" /\ ~last.raised) =>
        (last.kind = "int" /\ last.num = last.had)

\* C8 (amended): flush returns nothing; the number of documents it removed is
\* what it prints.
C8_FlushPrintsCount ==
    (last.op = "flush" /\ ~last.raised) =>
        (last.kind = "none" /\ last.out = <<last.had>>)

C8_Witness == last.op = "flush" /\ ~last.raised /\ last.out = <<2>>

\* C9: right after a drop of a collection, whatever it held, the collection
\* is gone, and resolving its name gives a collection that exists and is
\* empty.
C9_DropThenResolveIsEmpty ==
    (last.op = "drop" /\ ~last.raised) =>
        /\ ~Exists(store, last.coll)
        /\ LET r == Resolve(store, last.coll)
           IN  r.err = "" /\ Exists(r.st, last.coll) /\ DocsOf(r.st, last.coll) = <<>>

C9_Witness == last.op = "drop" /\ ~last.raised /\ last.had >= 1

\* C10 (as claimed): a find with limit n >= 0 returns at most n documents,
\* the first matching ones.
C10_FindReturnsAtMostLimit ==
    (last.op = "find" /\ ~last.raised) =>
        /\ Len(last.docs) <= last.lim
        /\ Len(last.docs) =
              Min(last.lim, Len(Select(DocsOf(store, last.coll), last.qu)))

====
